---------------------------- MODULE Spec2Model ----------------------------
(***************************************************************************)
(* Model of the api_yamdb serializer layer (api/serializers.py) and of the *)
(* relational constraints declared by reviews/migrations/0002_initial.py.  *)
(*                                                                         *)
(* Four specifications share the variables:                                *)
(*   Spec     - the review store: titles, reviews, comments, users,        *)
(*              review POSTs split into their validate and insert steps    *)
(*              (pending is the bag of POSTs between the two);             *)
(*   CascadeSpec - the creates and deletes of the schema, with comments;   *)
(*   UserSpec - the user store: creation and update of users through the   *)
(*              three user serializers;                                    *)
(*   ValSpec  - the serializers' validation applied to enumerated inputs.  *)
(***************************************************************************)
EXTENDS Integers, Sequences, FiniteSets, Bags, TLC

VARIABLES users, nextUser, titles, nextTitle, reviews, nextReview,
          comments, nextComment, pending, last, funcAddr, vreq, vres

vars == <<users, nextUser, titles, nextTitle, reviews, nextReview,
          comments, nextComment, pending, last, funcAddr, vreq, vres>>

storeVars == <<users, nextUser, titles, nextTitle, reviews, nextReview,
               comments, nextComment, pending, last>>

(***************************************************************************)
(* Bounds of the model.                                                    *)
(***************************************************************************)
MaxUsers == 2
MaxTitles == 2
MaxReviews == 2
MaxComments == 1
MaxInFlight == 2

(***************************************************************************)
(* Python values.  None is a sentinel outside every input alphabet; a      *)
(* request body is a function whose DOMAIN is the set of submitted keys.   *)
(***************************************************************************)
None == "~None~"
OK == "ok"

\* dict.get(key): the value, or None when the key is absent.
Get(data, k) == IF k \in DOMAIN data THEN data[k] ELSE None

\* str(value): str(None) is the four-letter string "None".
Str(v) == IF v = None THEN "None" ELSE v

\* c * n, by halving.
RECURSIVE Repeat(_, _)
Repeat(c, n) ==
    IF n = 0 THEN ""
    ELSE LET h == Repeat(c, n \div 2)
         IN  h \o h \o (IF n % 2 = 1 THEN c ELSE "")

CharAt(s, i) == SubSeq(s, i, i)

\* str.strip(), applied by CharField (trim_whitespace) before its checks:
\* the text from the first to the last character that is not a space.
Strip(s) ==
    LET solid == {i \in 1..Len(s) : CharAt(s, i) # " "}
    IN  IF solid = {} THEN ""
        ELSE SubSeq(s, CHOOSE i \in solid : \A j \in solid : i <= j,
                       CHOOSE i \in solid : \A j \in solid : i >= j)

(***************************************************************************)
(* Declared field lengths.                                                 *)
(***************************************************************************)
MAX_USERNAME_LENGTH == 150
MAX_EMAIL_LENGTH == 254
MAX_ROLE_LENGTH == 15
MAX_CODE_LENGTH == 16

BlankMsg == "This field may not be blank."
NullMsg == "This field may not be null."
RequiredMsg == "This field is required."
TooLongMsg == "Ensure this field has no more than max_length characters."
BadEmailMsg == "Enter a valid email address."
BadChoiceMsg == "is not a valid choice."
BadUsernameMsg == "invalid username"
BadEmailFormatMsg == "invalid email"
NotUniqueMsg == "The fields username, email must make a unique set."
\* The three messages the serializers raise, in translation.
RoleMsg == "A non-existent role is given"
DupMsg == "No more than one review may be added"
EmptyCodeMsg == "The confirmation code may not be empty"

(***************************************************************************)
(* serializers.CharField(max_length=n): null and blank are refused, the    *)
(* value is stripped, then its length is checked.                          *)
(***************************************************************************)
CharFieldNoBlankCheck(v, n) ==
    IF v = None THEN NullMsg
    ELSE IF Len(Strip(v)) > n THEN TooLongMsg
    ELSE OK

CharField(v, n) ==
    IF v = None THEN NullMsg
    ELSE IF Strip(v) = "" THEN BlankMsg
    ELSE IF Len(Strip(v)) > n THEN TooLongMsg
    ELSE OK

\* The number of "@" in s.
CountAt(s) == Cardinality({i \in 1..Len(s) : CharAt(s, i) = "@"})

HasSpace(s) == \E i \in 1..Len(s) : CharAt(s, i) = " "

\* The address format check: one "@", with text on both sides, no spaces.
EmailFormat(s) ==
    /\ CountAt(s) = 1
    /\ CharAt(s, 1) # "@"
    /\ CharAt(s, Len(s)) # "@"
    /\ ~HasSpace(s)

\* serializers.EmailField(max_length=n): a CharField plus the format check.
EmailField(v, n) ==
    IF CharField(v, n) # OK THEN CharField(v, n)
    ELSE IF ~EmailFormat(Strip(v)) THEN BadEmailMsg
    ELSE OK

\* A required field: absent is an error, otherwise the field's own check.
Required(data, k, err) == IF k \notin DOMAIN data THEN RequiredMsg ELSE err

\* The first error of a sequence of outcomes, or OK.
RECURSIVE FirstError(_)
FirstError(outs) ==
    IF outs = <<>> THEN OK
    ELSE IF Head(outs) # OK THEN Head(outs)
    ELSE FirstError(Tail(outs))

(***************************************************************************)
(* users.models and users.utils.                                           *)
(***************************************************************************)
CHOICE_ROLES == << <<"user", "User">>,
                   <<"moderator", "Moderator">>,
                   <<"admin", "Admin">> >>

Roles == {CHOICE_ROLES[i][1] : i \in 1..Len(CHOICE_ROLES)}

DefaultRole == "user"

UsernameChars == {"a", "b", "e", "m", "o", "y", "N", "n", "r", "u", ".", "@"}

username_validate(s) ==
    IF s # "me" /\ Len(s) > 0 /\ \A i \in 1..Len(s) : CharAt(s, i) \in UsernameChars
    THEN OK ELSE BadUsernameMsg

email_validate(s) == IF EmailFormat(s) THEN OK ELSE BadEmailFormatMsg

(***************************************************************************)
(* TokenSerializer.                                                        *)
(***************************************************************************)
TokenSerializer_fields_codeOptional(data) ==
    FirstError(<<
        Required(data, "username",
                 CharField(Get(data, "username"), MAX_USERNAME_LENGTH)),
        IF "confirmation_code" \in DOMAIN data
           THEN CharFieldNoBlankCheck(Get(data, "confirmation_code"),
                                      MAX_CODE_LENGTH)
           ELSE OK >>)

TokenSerializer_fields(data) ==
    FirstError(<<
        Required(data, "username",
                 CharField(Get(data, "username"), MAX_USERNAME_LENGTH)),
        Required(data, "confirmation_code",
                 CharField(Get(data, "confirmation_code"), MAX_CODE_LENGTH)) >>)

TokenSerializer_validate(data) ==
    LET username == Str(Get(data, "username"))
        confirmation_code == Get(data, "confirmation_code")
    IN  IF confirmation_code = None THEN EmptyCodeMsg
        ELSE username_validate(username)

(***************************************************************************)
(* The user serializers.  A payload is validated as the framework does:    *)
(* the declared fields, then the Meta validators, then validate().  inst   *)
(* is the id of the instance being updated, 0 on create; partial is TRUE   *)
(* for PATCH.  The fields modelled are username, email, bio and role       *)
(* (first_name and last_name behave as bio does).                          *)
(***************************************************************************)
Field(data, k, err, partial) ==
    IF k \notin DOMAIN data THEN (IF partial THEN OK ELSE RequiredMsg) ELSE err

Optional(data, k, err) == IF k \notin DOMAIN data THEN OK ELSE err

Cleaned(data) ==
    [k \in DOMAIN data |-> IF data[k] = None THEN None ELSE Strip(data[k])]

\* The field generated for User.role, a model field with choices.
RoleChoiceField(v) ==
    IF v = None THEN NullMsg
    ELSE IF v \notin Roles THEN BadChoiceMsg
    ELSE OK

\* UniqueTogetherValidator(queryset=User.objects.all(),
\*                         fields=['username', 'email'])
UniqueTogetherValidator(vd, inst) ==
    LET username == IF "username" \in DOMAIN vd THEN vd["username"]
                    ELSE IF inst \in DOMAIN users THEN users[inst].username
                    ELSE None
        email == IF "email" \in DOMAIN vd THEN vd["email"]
                 ELSE IF inst \in DOMAIN users THEN users[inst].email
                 ELSE None
    IN  IF \E id \in DOMAIN users \ {inst} :
               users[id].username = username /\ users[id].email = email
        THEN NotUniqueMsg ELSE OK

\* ---- UserSerializer
UserSerializer_fields(data, partial) ==
    FirstError(<<
        Field(data, "email",
              EmailField(Get(data, "email"), MAX_EMAIL_LENGTH), partial),
        Field(data, "username",
              CharField(Get(data, "username"), MAX_USERNAME_LENGTH), partial),
        Optional(data, "role", RoleChoiceField(Get(data, "role"))) >>)

UserSerializer_validate(data) ==
    FirstError(<< username_validate(Str(Get(data, "username"))),
                  email_validate(Str(Get(data, "email"))) >>)

UserSerializer_validated(data) == Cleaned(data)

UserSerializer_is_valid(data, inst, partial) ==
    FirstError(<< UserSerializer_fields(data, partial),
                  UniqueTogetherValidator(UserSerializer_validated(data), inst),
                  UserSerializer_validate(UserSerializer_validated(data)) >>)

\* ---- MeSerializer
MeSerializer_read_only_none == {}

\* role = serializers.CharField(max_length=15, read_only=True)
MeSerializer_read_only == {"role"}

MeSerializer_fields(data, partial) ==
    FirstError(<<
        Field(data, "email",
              EmailField(Get(data, "email"), MAX_EMAIL_LENGTH), partial),
        Field(data, "username",
              CharField(Get(data, "username"), MAX_USERNAME_LENGTH), partial),
        IF "role" \in MeSerializer_read_only THEN OK
        ELSE Optional(data, "role",
                      CharField(Get(data, "role"), MAX_ROLE_LENGTH)) >>)

MeSerializer_validate(data) ==
    FirstError(<< username_validate(Str(Get(data, "username"))),
                  email_validate(Str(Get(data, "email"))) >>)

\* Read-only fields are left out of the validated data.
MeSerializer_validated(data) ==
    [k \in DOMAIN data \ MeSerializer_read_only |-> Cleaned(data)[k]]

MeSerializer_is_valid(data, inst, partial) ==
    FirstError(<< MeSerializer_fields(data, partial),
                  UniqueTogetherValidator(MeSerializer_validated(data), inst),
                  MeSerializer_validate(MeSerializer_validated(data)) >>)

\* ---- AdminOrSuperAdminUserSerializer
AdminOrSuperAdminUserSerializer_fields(data, partial) ==
    FirstError(<<
        Field(data, "email",
              EmailField(Get(data, "email"), MAX_EMAIL_LENGTH), partial),
        Field(data, "username",
              CharField(Get(data, "username"), MAX_USERNAME_LENGTH), partial),
        Optional(data, "role",
                 CharField(Get(data, "role"), MAX_ROLE_LENGTH)) >>)

\* role in i, for a tuple i: membership among the tuple's elements.
InTuple(x, i) == \E j \in 1..Len(i) : i[j] = x

AdminOrSuperAdminUserSerializer_validate(data) ==
    LET role == Str(Get(data, "role"))
    IN  FirstError(<<
            username_validate(Str(Get(data, "username"))),
            email_validate(Str(Get(data, "email"))),
            IF \E i \in 1..Len(CHOICE_ROLES) : InTuple(role, CHOICE_ROLES[i])
            THEN RoleMsg ELSE OK >>)

\* role = serializers.CharField(max_length=15, default='user'): the default
\* is supplied when the key is absent, except on a partial update.
AdminOrSuperAdminUserSerializer_validated(data, partial) ==
    LET c == Cleaned(data)
    IN  IF "role" \in DOMAIN data \/ partial THEN c
        ELSE [k \in DOMAIN data \cup {"role"} |->
                 IF k = "role" THEN "user" ELSE c[k]]

AdminOrSuperAdminUserSerializer_is_valid(data, inst, partial) ==
    FirstError(<<
        AdminOrSuperAdminUserSerializer_fields(data, partial),
        UniqueTogetherValidator(
            AdminOrSuperAdminUserSerializer_validated(data, partial), inst),
        AdminOrSuperAdminUserSerializer_validate(
            AdminOrSuperAdminUserSerializer_validated(data, partial)) >>)

\* ---- SignUpSerializer
SignUpSerializer_fields(data) ==
    FirstError(<<
        Required(data, "username",
                 CharField(Get(data, "username"), MAX_USERNAME_LENGTH)),
        Required(data, "email",
                 EmailField(Get(data, "email"), MAX_EMAIL_LENGTH)) >>)

SignUpSerializer_validate(data) ==
    FirstError(<< username_validate(Str(Get(data, "username"))),
                  email_validate(Str(Get(data, "username"))) >>)

(***************************************************************************)
(* ReviewSerializer.validate, for a request with the given method and      *)
(* user, under the URL's title_id.                                         *)
(***************************************************************************)
Http404 == "Not found."

ReviewExists(title, author) ==
    \E r \in reviews : r.title = title /\ r.author = author

ReviewSerializer_validate_anyMethod(method, author, title_id) ==
    IF title_id \notin titles THEN Http404
    ELSE IF ReviewExists(title_id, author) THEN DupMsg
    ELSE OK

ReviewSerializer_validate(method, author, title_id) ==
    IF title_id \notin titles THEN Http404
    ELSE IF method = "POST" /\ ReviewExists(title_id, author) THEN DupMsg
    ELSE OK

(***************************************************************************)
(* The schema of reviews/migrations/0002_initial.py.                       *)
(***************************************************************************)
IntegrityUnique == "IntegrityError: unique review"
IntegrityFK == "IntegrityError: FOREIGN KEY constraint failed"

UniqueReview_absent(title, author) == TRUE

\* UniqueConstraint(fields=('title', 'author'), name='unique review'):
\* whether a row with this pair may be inserted.
UniqueReview(title, author) == ~ReviewExists(title, author)

\* review.author and review.title are foreign keys.
ReviewForeignKeys(author, title) ==
    author \in DOMAIN users /\ title \in titles

\* comment.author and comment.review are foreign keys.
CommentForeignKeys(author, review) ==
    author \in DOMAIN users /\ \E r \in reviews : r.id = review

\* on_delete=CASCADE of review.title and review.author: the reviews left.
CascadeReviews(delTitles, delUsers) ==
    {r \in reviews : r.title \notin delTitles /\ r.author \notin delUsers}

CascadeComments_authorOnly(delReviews, delUsers) ==
    {c \in comments : c.author \notin delUsers}

\* on_delete=CASCADE of comment.review and comment.author: the comments left.
CascadeComments(delReviews, delUsers) ==
    {c \in comments : c.review \notin delReviews /\ c.author \notin delUsers}

(***************************************************************************)
(* The store.  last is the outcome of the latest handler step: the HTTP    *)
(* status (0 while a request is between validation and insertion), a       *)
(* detail, and the number of rows the step inserted, updated or deleted    *)
(* (cascaded rows included).  vreq is the latest body handed to a user     *)
(* serializer.                                                             *)
(***************************************************************************)
UserIds == 1..MaxUsers
TitleIds == 1..MaxTitles
ReviewIds == 1..MaxReviews
Texts == {"good", "bad"}
Addrs == {"0x7f3a10", "0x7f9c40"}

Outcome(op, status, detail, rows) ==
    [op |-> op, status |-> status, detail |-> detail, rows |-> rows]

InFlight == BagCardinality(pending)

\* str(get_unique_confirmation_code): the function is not called, so this
\* is the text of the function object, which holds its address.
ConfirmCode == "<function get_unique_confirmation_code at " \o funcAddr \o ">"

\* User.objects.create(**validated_data, confirmation_code=confirm_code)
NewUser(vd, code) ==
    [username |-> vd["username"],
     email |-> vd["email"],
     role |-> IF "role" \in DOMAIN vd THEN vd["role"] ELSE DefaultRole,
     bio |-> IF "bio" \in DOMAIN vd THEN vd["bio"] ELSE "",
     confirmation_code |-> code]

\* ModelSerializer.update: every validated key is set on the instance.
UpdatedUser(u, vd) ==
    [f \in DOMAIN u |-> IF f \in DOMAIN vd THEN vd[f] ELSE u[f]]

Without(f, k) == [i \in DOMAIN f \ {k} |-> f[i]]

NotRun == "not run"

\* A serializer instance validates one body: each run starts from NoRequest.
NoRequest == [ser |-> "none", data |-> <<>>]

Init ==
    /\ users = <<>>
    /\ nextUser = 1
    /\ titles = {}
    /\ nextTitle = 1
    /\ reviews = {}
    /\ nextReview = 1
    /\ comments = {}
    /\ nextComment = 1
    /\ pending = EmptyBag
    /\ last = Outcome("none", 0, OK, 0)
    /\ funcAddr \in Addrs
    /\ vreq = NoRequest
    /\ vres = [fields |-> OK, validate |-> OK, valid |-> OK]

\* The stores of reviews and the validation runs only copy the address, so
\* they are explored for one address.
OneAddrInit == Init /\ funcAddr = "0x7f3a10"

\* ---- users
UserCreate(data) ==
    /\ vreq' = [ser |-> "User", data |-> data]
    /\ nextUser <= MaxUsers
    /\ LET out == UserSerializer_is_valid(data, 0, FALSE)
       IN  IF out = OK
           THEN /\ users' = users @@
                      (nextUser :> NewUser(UserSerializer_validated(data),
                                           ConfirmCode))
                /\ nextUser' = nextUser + 1
                /\ last' = Outcome("UserCreate", 201, OK, 1)
           ELSE /\ last' = Outcome("UserCreate", 400, out, 0)
                /\ UNCHANGED <<users, nextUser>>
    /\ UNCHANGED <<titles, nextTitle, reviews, nextReview, comments,
                   nextComment, pending, funcAddr, vres>>

UserUpdate(id, data) ==
    /\ vreq' = [ser |-> "User", data |-> data]
    /\ id \in DOMAIN users
    /\ LET out == UserSerializer_is_valid(data, id, TRUE)
       IN  IF out = OK
           THEN /\ users' = [users EXCEPT ![id] =
                      UpdatedUser(@, UserSerializer_validated(data))]
                /\ last' = Outcome("UserUpdate", 200, OK, 1)
           ELSE /\ last' = Outcome("UserUpdate", 400, out, 0)
                /\ UNCHANGED users
    /\ UNCHANGED <<nextUser, titles, nextTitle, reviews, nextReview, comments,
                   nextComment, pending, funcAddr, vres>>

AdminCreate(data) ==
    /\ vreq' = [ser |-> "Admin", data |-> data]
    /\ nextUser <= MaxUsers
    /\ LET out == AdminOrSuperAdminUserSerializer_is_valid(data, 0, FALSE)
       IN  IF out = OK
           THEN /\ users' = users @@
                      (nextUser :> NewUser(
                          AdminOrSuperAdminUserSerializer_validated(data, FALSE),
                          ConfirmCode))
                /\ nextUser' = nextUser + 1
                /\ last' = Outcome("AdminCreate", 201, OK, 1)
           ELSE /\ last' = Outcome("AdminCreate", 400, out, 0)
                /\ UNCHANGED <<users, nextUser>>
    /\ UNCHANGED <<titles, nextTitle, reviews, nextReview, comments,
                   nextComment, pending, funcAddr, vres>>

AdminUpdate(id, data) ==
    /\ vreq' = [ser |-> "Admin", data |-> data]
    /\ id \in DOMAIN users
    /\ LET out == AdminOrSuperAdminUserSerializer_is_valid(data, id, TRUE)
       IN  IF out = OK
           THEN /\ users' = [users EXCEPT ![id] = UpdatedUser(@,
                      AdminOrSuperAdminUserSerializer_validated(data, TRUE))]
                /\ last' = Outcome("AdminUpdate", 200, OK, 1)
           ELSE /\ last' = Outcome("AdminUpdate", 400, out, 0)
                /\ UNCHANGED users
    /\ UNCHANGED <<nextUser, titles, nextTitle, reviews, nextReview, comments,
                   nextComment, pending, funcAddr, vres>>

MeUpdate(id, data) ==
    /\ vreq' = [ser |-> "Me", data |-> data]
    /\ id \in DOMAIN users
    /\ LET out == MeSerializer_is_valid(data, id, TRUE)
       IN  IF out = OK
           THEN /\ users' = [users EXCEPT ![id] =
                      UpdatedUser(@, MeSerializer_validated(data))]
                /\ last' = Outcome("MeUpdate", 200, OK, 1)
           ELSE /\ last' = Outcome("MeUpdate", 400, out, 0)
                /\ UNCHANGED users
    /\ UNCHANGED <<nextUser, titles, nextTitle, reviews, nextReview, comments,
                   nextComment, pending, funcAddr, vres>>

UserDelete(id) ==
    /\ id \in DOMAIN users
    /\ users' = Without(users, id)
    /\ reviews' = CascadeReviews({}, {id})
    /\ comments' = CascadeComments({r.id : r \in reviews \ reviews'}, {id})
    /\ last' = Outcome("UserDelete", 204, OK,
                      1 + Cardinality(reviews \ reviews')
                        + Cardinality(comments \ comments'))
    /\ UNCHANGED <<nextUser, titles, nextTitle, nextReview, nextComment,
                   pending, funcAddr, vreq, vres>>

\* ---- titles
TitleCreate ==
    /\ nextTitle <= MaxTitles
    /\ titles' = titles \cup {nextTitle}
    /\ nextTitle' = nextTitle + 1
    /\ last' = Outcome("TitleCreate", 201, OK, 1)
    /\ UNCHANGED <<users, nextUser, reviews, nextReview, comments,
                   nextComment, pending, funcAddr, vreq, vres>>

TitleDelete(t) ==
    /\ t \in titles
    /\ titles' = titles \ {t}
    /\ reviews' = CascadeReviews({t}, {})
    /\ comments' = CascadeComments({r.id : r \in reviews \ reviews'}, {})
    /\ last' = Outcome("TitleDelete", 204, OK,
                      1 + Cardinality(reviews \ reviews')
                        + Cardinality(comments \ comments'))
    /\ UNCHANGED <<users, nextUser, nextTitle, nextReview, nextComment,
                   pending, funcAddr, vreq, vres>>

\* ---- reviews
\* POST, first step: ReviewSerializer.validate for user u under title t.
ReviewPost(u, t, text) ==
    /\ InFlight < MaxInFlight
    /\ u \in DOMAIN users
    /\ nextReview + InFlight <= MaxReviews
    /\ LET out == ReviewSerializer_validate("POST", u, t)
       IN  IF out = OK
           THEN /\ pending' = pending (+)
                      SetToBag({[author |-> u, title |-> t, text |-> text]})
                /\ last' = Outcome("ReviewPost", 0, OK, 0)
           ELSE /\ last' = Outcome("ReviewPost",
                                   IF out = Http404 THEN 404 ELSE 400, out, 0)
                /\ UNCHANGED pending
    /\ UNCHANGED <<users, nextUser, titles, nextTitle, reviews, nextReview,
                   comments, nextComment, funcAddr, vreq, vres>>

\* POST, second step: the INSERT, under the table's constraints.
ReviewInsert(p) ==
    /\ BagIn(p, pending)
    /\ IF ~ReviewForeignKeys(p.author, p.title)
       THEN /\ last' = Outcome("ReviewInsert", 500, IntegrityFK, 0)
            /\ UNCHANGED <<reviews, nextReview>>
       ELSE IF ~UniqueReview(p.title, p.author)
       THEN /\ last' = Outcome("ReviewInsert", 500, IntegrityUnique, 0)
            /\ UNCHANGED <<reviews, nextReview>>
       ELSE /\ reviews' = reviews \cup
                  {[id |-> nextReview, title |-> p.title,
                    author |-> p.author, text |-> p.text]}
            /\ nextReview' = nextReview + 1
            /\ last' = Outcome("ReviewInsert", 201, OK, 1)
    /\ pending' = pending (-) SetToBag({p})
    /\ UNCHANGED <<users, nextUser, titles, nextTitle, comments, nextComment,
                   funcAddr, vreq, vres>>

\* POST as one step: validate, then the INSERT, with no other request
\* between the two.
ReviewCreate(u, t, text) ==
    /\ u \in DOMAIN users
    /\ nextReview <= MaxReviews
    /\ LET out == ReviewSerializer_validate("POST", u, t)
       IN  IF out # OK
           THEN /\ last' = Outcome("ReviewCreate",
                                   IF out = Http404 THEN 404 ELSE 400, out, 0)
                /\ UNCHANGED <<reviews, nextReview>>
           ELSE IF ~ReviewForeignKeys(u, t)
           THEN /\ last' = Outcome("ReviewCreate", 500, IntegrityFK, 0)
                /\ UNCHANGED <<reviews, nextReview>>
           ELSE IF ~UniqueReview(t, u)
           THEN /\ last' = Outcome("ReviewCreate", 500, IntegrityUnique, 0)
                /\ UNCHANGED <<reviews, nextReview>>
           ELSE /\ reviews' = reviews \cup
                      {[id |-> nextReview, title |-> t,
                        author |-> u, text |-> text]}
                /\ nextReview' = nextReview + 1
                /\ last' = Outcome("ReviewCreate", 201, OK, 1)
    /\ UNCHANGED <<users, nextUser, titles, nextTitle, comments, nextComment,
                   pending, funcAddr, vreq, vres>>

\* PATCH of review r under title t by user u: validate, then save.  title
\* and author are read-only in the serializer, so only the text is written.
ReviewUpdate(u, t, r, text) ==
    /\ u \in DOMAIN users
    /\ r \in reviews
    /\ r.title = t
    /\ LET out == ReviewSerializer_validate("PATCH", u, t)
       IN  IF out = OK
           THEN /\ reviews' = (reviews \ {r}) \cup {[r EXCEPT !.text = text]}
                /\ last' = Outcome("ReviewUpdate", 200, OK, 1)
           ELSE /\ last' = Outcome("ReviewUpdate",
                                   IF out = Http404 THEN 404 ELSE 400, out, 0)
                /\ UNCHANGED reviews
    /\ UNCHANGED <<users, nextUser, titles, nextTitle, nextReview, comments,
                   nextComment, pending, funcAddr, vreq, vres>>

ReviewDelete(r) ==
    /\ r \in reviews
    /\ reviews' = reviews \ {r}
    /\ comments' = CascadeComments({r.id}, {})
    /\ last' = Outcome("ReviewDelete", 204, OK,
                      1 + Cardinality(comments \ comments'))
    /\ UNCHANGED <<users, nextUser, titles, nextTitle, nextReview,
                   nextComment, pending, funcAddr, vreq, vres>>

\* ---- comments
CommentCreate(u, rid) ==
    /\ nextComment <= MaxComments
    /\ IF CommentForeignKeys(u, rid)
       THEN /\ comments' = comments \cup
                  {[id |-> nextComment, review |-> rid, author |-> u]}
            /\ nextComment' = nextComment + 1
            /\ last' = Outcome("CommentCreate", 201, OK, 1)
       ELSE /\ last' = Outcome("CommentCreate", 404, Http404, 0)
            /\ UNCHANGED <<comments, nextComment>>
    /\ UNCHANGED <<users, nextUser, titles, nextTitle, reviews, nextReview,
                   pending, funcAddr, vreq, vres>>

CommentDelete(c) ==
    /\ c \in comments
    /\ comments' = comments \ {c}
    /\ last' = Outcome("CommentDelete", 204, OK, 1)
    /\ UNCHANGED <<users, nextUser, titles, nextTitle, reviews, nextReview,
                   nextComment, pending, funcAddr, vreq, vres>>

(***************************************************************************)
(* Request bodies.  Absent marks a key that is not submitted.               *)
(***************************************************************************)
Absent == "~absent~"

Payload(f) == [k \in {x \in DOMAIN f : f[x] # Absent} |-> f[k]]

UsernameInputs ==
    {Absent, None, "", "bob", "me", "b b", "amy@ya.ru",
     Repeat("a", MAX_USERNAME_LENGTH + 1)}

EmailInputs == {Absent, "bob@ya.ru", "amy@ya.ru", "bob", "a b@ya.ru"}

CodeInputs ==
    {Absent, None, "", "  ", "abc123", Repeat("c", MAX_CODE_LENGTH),
     Repeat("c", MAX_CODE_LENGTH + 1)}

RoleInputs == {Absent, "user", "moderator", "admin", "owner", "Admin", ""}

TokenInputs ==
    {Payload([username |-> u, confirmation_code |-> c]) :
        u \in UsernameInputs, c \in CodeInputs}

SignUpInputs ==
    {Payload([username |-> u, email |-> e]) :
        u \in UsernameInputs, e \in EmailInputs}

UserInputs ==
    {Payload([username |-> u, email |-> e, role |-> r]) :
        u \in UsernameInputs, e \in EmailInputs, r \in RoleInputs}

\* Bodies sent to the stores.
StoreCreateInputs ==
    {Payload([username |-> u, email |-> e, role |-> r]) :
        u \in {"bob", "amy"}, e \in {"bob@ya.ru"},
        r \in {Absent, "moderator", "owner"}}

\* PATCH bodies: with or without the name and address, the bio, a role.
StoreUpdateInputs ==
    {Payload([username |-> n[1], email |-> n[2], bio |-> b, role |-> r]) :
        n \in {<<Absent, Absent>>, <<"amy", "bob@ya.ru">>},
        b \in {Absent, "hi"}, r \in {Absent, "admin"}}

\* The review store registers its k-th user under a name of its own.
ReviewStoreUserInput(k) ==
    [username |-> Repeat("b", k), email |-> Repeat("b", k) \o "@ya.ru"]

(***************************************************************************)
(* Validation applied to an enumerated body.                               *)
(***************************************************************************)

\* What a validation run yields: the outcome of the declared fields, of
\* validate() (run only when the fields pass) and of the whole.
Validation(fields, validate) ==
    [fields |-> fields,
     validate |-> IF fields = OK THEN validate ELSE NotRun,
     valid |-> IF fields = OK THEN validate ELSE fields]

ValToken(data) ==
    /\ vreq = NoRequest
    /\ vreq' = [ser |-> "Token", data |-> data]
    /\ vres' = Validation(TokenSerializer_fields(data),
                          TokenSerializer_validate(Cleaned(data)))
    /\ UNCHANGED <<storeVars, funcAddr>>

ValSignUp(data) ==
    /\ vreq = NoRequest
    /\ vreq' = [ser |-> "SignUp", data |-> data]
    /\ vres' = Validation(SignUpSerializer_fields(data),
                          SignUpSerializer_validate(Cleaned(data)))
    /\ UNCHANGED <<storeVars, funcAddr>>

ValUser(data) ==
    /\ vreq = NoRequest
    /\ vreq' = [ser |-> "User", data |-> data]
    /\ vres' = Validation(UserSerializer_fields(data, FALSE),
                          UserSerializer_validate(UserSerializer_validated(data)))
    /\ UNCHANGED <<storeVars, funcAddr>>

ValMe(data) ==
    /\ vreq = NoRequest
    /\ vreq' = [ser |-> "Me", data |-> data]
    /\ vres' = Validation(MeSerializer_fields(data, FALSE),
                          MeSerializer_validate(MeSerializer_validated(data)))
    /\ UNCHANGED <<storeVars, funcAddr>>

ValAdmin(data) ==
    /\ vreq = NoRequest
    /\ vreq' = [ser |-> "Admin", data |-> data]
    /\ vres' = Validation(
                   AdminOrSuperAdminUserSerializer_fields(data, FALSE),
                   AdminOrSuperAdminUserSerializer_validate(
                       AdminOrSuperAdminUserSerializer_validated(data, FALSE)))
    /\ UNCHANGED <<storeVars, funcAddr>>

(***************************************************************************)
(* The specifications.                                                     *)
(***************************************************************************)
Next ==
    \/ UserCreate(ReviewStoreUserInput(nextUser))
    \/ \E id \in UserIds : UserDelete(id)
    \/ TitleCreate
    \/ \E t \in TitleIds : TitleDelete(t)
    \/ \E u \in UserIds, t \in TitleIds : ReviewPost(u, t, "good")
    \/ \E p \in BagToSet(pending) : ReviewInsert(p)
    \/ \E u \in UserIds, t \in TitleIds, r \in reviews, text \in Texts :
          ReviewUpdate(u, t, r, text)
    \/ \E r \in reviews : ReviewDelete(r)

Spec == OneAddrInit /\ [][Next]_vars

\* The creates and deletes of the whole schema, comments included.
CascadeNext ==
    \/ UserCreate(ReviewStoreUserInput(nextUser))
    \/ \E id \in UserIds : UserDelete(id)
    \/ TitleCreate
    \/ \E t \in TitleIds : TitleDelete(t)
    \/ \E u \in UserIds, t \in TitleIds : ReviewCreate(u, t, "good")
    \/ \E r \in reviews : ReviewDelete(r)
    \/ \E u \in DOMAIN users, rid \in ReviewIds : CommentCreate(u, rid)
    \/ \E c \in comments : CommentDelete(c)

CascadeSpec == OneAddrInit /\ [][CascadeNext]_vars

UserNext ==
    \/ \E data \in StoreCreateInputs : UserCreate(data)
    \/ \E id \in UserIds, data \in StoreUpdateInputs : UserUpdate(id, data)
    \/ \E data \in StoreCreateInputs : AdminCreate(data)
    \/ \E id \in UserIds, data \in StoreUpdateInputs : AdminUpdate(id, data)
    \/ \E id \in UserIds, data \in StoreUpdateInputs : MeUpdate(id, data)
    \/ \E id \in UserIds : UserDelete(id)

UserSpec == Init /\ [][UserNext]_vars

ValNext ==
    \/ \E data \in TokenInputs : ValToken(data)
    \/ \E data \in SignUpInputs : ValSignUp(data)
    \/ \E data \in UserInputs : ValUser(data)
    \/ \E data \in UserInputs : ValMe(data)
    \/ \E data \in UserInputs : ValAdmin(data)

ValSpec == OneAddrInit /\ [][ValNext]_vars

(***************************************************************************)
(* Properties.                                                             *)
(***************************************************************************)

\* C1: in every reachable state of the store there is at most one Review
\* for each (title, author) pair.
C1_OneReviewPerPair ==
    \A r1 \in reviews, r2 \in reviews :
        (r1.title = r2.title /\ r1.author = r2.author) => r1 = r2

\* A second insert for a pair that is already stored has been refused.
C1_Witness ==
    /\ last.op = "ReviewInsert"
    /\ last.detail = IntegrityUnique
    /\ reviews # {}

\* C2: ReviewSerializer.validate raises the duplicate-review error exactly
\* when the method is POST and a review by the requesting user for the URL's
\* title exists; when it raises, the stored reviews are unchanged; a PATCH is
\* never refused by this check.
C2_ValidateRaisesExactlyOnDuplicatePost ==
    [][ /\ \A u \in UserIds, t \in TitleIds :
              ReviewPost(u, t, "good") =>
                  /\ (last'.detail = DupMsg) <=> ReviewExists(t, u)
                  /\ (last'.detail = DupMsg) => (reviews' = reviews)
        /\ \A u \in UserIds, t \in TitleIds, r \in reviews, text \in Texts :
              ReviewUpdate(u, t, r, text) => last'.detail # DupMsg
      ]_vars

\* A POST has been refused as a duplicate, its author's review still stored.
C2_Witness ==
    /\ last = Outcome("ReviewPost", 400, DupMsg, 0)
    /\ reviews # {}

\* C6: every stored Review references an existing Title and an existing
\* author, and every stored Comment references an existing Review and an
\* existing author.
C6_NoOrphans ==
    /\ \A r \in reviews : r.title \in titles /\ r.author \in DOMAIN users
    /\ \A c \in comments :
          /\ \E r \in reviews : r.id = c.review
          /\ c.author \in DOMAIN users

\* A title has been deleted together with a review of it and a comment on
\* that review.
C6_Witness ==
    /\ last.op = "TitleDelete"
    /\ last.rows = 3
    /\ reviews = {}
    /\ comments = {}

\* C8: when two POSTs by one author for one title both pass the existence
\* check before either inserts, at most one Review is stored and the request
\* that stores none is answered with the validation error, not with a
\* database integrity failure.
C8_LoserGetsValidationError ==
    /\ C1_OneReviewPerPair
    /\ (last.op = "ReviewInsert" /\ last.status # 201 /\ last.detail # IntegrityFK)
          => (last.status = 400 /\ last.detail = DupMsg)

\* C4: every stored User has a role that is one of user, moderator, admin.
C4_RolesEnumerated == \A id \in DOMAIN users : users[id].role \in Roles

\* C9: no two stored users share a confirmation_code.
C9_DistinctCodes ==
    \A i \in DOMAIN users, j \in DOMAIN users :
        i # j => users[i].confirmation_code # users[j].confirmation_code

\* C10: an update through MeSerializer leaves the user's stored role
\* unchanged, for every submitted body.
C10_MeUpdateKeepsRole ==
    [][ \A id \in UserIds, data \in StoreUpdateInputs :
            MeUpdate(id, data) => users'[id].role = users[id].role ]_vars

\* A self-profile edit whose body carries a role has been accepted and has
\* written the bio.
C10_Witness ==
    /\ last = Outcome("MeUpdate", 200, OK, 1)
    /\ vreq.ser = "Me"
    /\ "role" \in DOMAIN vreq.data
    /\ "bio" \in DOMAIN vreq.data
    /\ \E id \in DOMAIN users : users[id].bio = "hi" /\ users[id].role = DefaultRole

\* The role a body submits to AdminOrSuperAdminUserSerializer: the cleaned
\* value, or the declared default when the key is absent.
SubmittedRole(data) ==
    IF "role" \in DOMAIN data THEN Strip(data["role"]) ELSE "user"

\* C3: AdminOrSuperAdminUserSerializer.validate raises the role error when
\* the submitted role is not one of user, moderator, admin, and does not
\* raise it when the role is one of them (the default 'user' included).
C3_RoleCheck ==
    (vreq.ser = "Admin" /\ vres.fields = OK
        /\ username_validate(Strip(vreq.data["username"])) = OK
        /\ email_validate(Strip(vreq.data["email"])) = OK)
    => /\ SubmittedRole(vreq.data) \notin Roles => vres.validate = RoleMsg
       /\ SubmittedRole(vreq.data) \in Roles => vres.validate = OK

FitsCharField(data, k, n) ==
    /\ k \in DOMAIN data
    /\ data[k] # None
    /\ Strip(data[k]) # ""
    /\ Len(Strip(data[k])) <= n

EmptyCode(data) ==
    \/ "confirmation_code" \notin DOMAIN data
    \/ data["confirmation_code"] = None
    \/ data["confirmation_code"] = ""

SubmittedUsername(data) ==
    "username" \in DOMAIN data /\ data["username"] # None

\* C5 as stated: an empty confirmation_code (absent, null, empty string) is
\* rejected; a non-empty confirmation_code with a username accepted by
\* username_validate passes validation.
\* (Read in the claim's favour: a code of spaces only counts as empty, and
\* the username is one its own field accepts.)
C5_AnyNonEmptyCodePasses ==
    vreq.ser = "Token" =>
        /\ EmptyCode(vreq.data) => vres.valid # OK
        /\ (/\ ~EmptyCode(vreq.data)
            /\ Strip(vreq.data["confirmation_code"]) # ""
            /\ FitsCharField(vreq.data, "username", MAX_USERNAME_LENGTH)
            /\ username_validate(Strip(vreq.data["username"])) = OK)
           => vres.valid = OK

\* C5, amended: an empty confirmation_code (absent, null, empty string) is
\* rejected; a request passes validation when confirmation_code and username
\* both fit their declared fields (submitted, not null, not blank after
\* trimming, within max_length) and username_validate accepts the username.
C5_TokenValidation ==
    vreq.ser = "Token" =>
        /\ EmptyCode(vreq.data) => vres.valid # OK
        /\ (/\ FitsCharField(vreq.data, "confirmation_code", MAX_CODE_LENGTH)
            /\ FitsCharField(vreq.data, "username", MAX_USERNAME_LENGTH)
            /\ username_validate(Strip(vreq.data["username"])) = OK)
           => vres.valid = OK

\* A token request with an empty-string code has been rejected.
C5_Witness ==
    /\ vreq.ser = "Token"
    /\ SubmittedUsername(vreq.data)
    /\ vreq.data["username"] = "bob"
    /\ "confirmation_code" \in DOMAIN vreq.data
    /\ vreq.data["confirmation_code"] = ""
    /\ vres.valid # OK

\* C7: sign-up validation succeeds exactly when username_validate accepts
\* the submitted username and email_validate accepts the submitted email.
C7_SignUpValidatesEmail ==
    (vreq.ser = "SignUp" /\ vres.fields = OK) =>
        (vres.validate = OK
            <=> /\ username_validate(Strip(vreq.data["username"])) = OK
                /\ email_validate(Strip(vreq.data["email"])) = OK)

=============================================================================
